---- MODULE Spec2Model ----
(***************************************************************************)
(* Model of ampligraph/latent_features/regularizers.py: the process-wide   *)
(* REGULARIZER_REGISTRY filled by the register_regularizer decorator, and  *)
(* the Regularizer contract (__init__, get_state, apply) of the variants   *)
(* NoRegularizer, L1Regularizer, L2Regularizer and L3Regularizer.          *)
(*                                                                         *)
(* Numbers.  Python floats are modelled as exact rationals <<num, den>>    *)
(* in lowest terms with den > 0, so 0.5 is <<1, 2>> and 1e-5 is            *)
(* <<1, 100000>>.  A tensor is modelled by the sequence of its elements    *)
(* (tf.reduce_sum does not depend on the shape), with integer elements.    *)
(*                                                                         *)
(* Python values.  A value stored in a hyperparameter mapping or returned  *)
(* by a call is a record [kind, val, items]: kind "scalar" carries the     *)
(* rational val, kinds "list" and "tuple" carry the sequence items of      *)
(* rationals, kind "None" is None.  A dict is the set of its <<key,        *)
(* value>> pairs.                                                          *)
(***************************************************************************)
EXTENDS Integers, Sequences, FiniteSets, TLC

\* ------------------------------------------------------------------ bounds
\* Largest number of trainable-parameter tensors passed to one apply call.
MaxTensors == 2
\* Largest length of a list (or tuple) given as the 'lambda' hyperparameter.
MaxLambdaLen == 2
\* Largest number of register_regularizer applications after module load.
MaxRegistrations == 1

\* ------------------------------------------------------- rational numbers
Abs(x) == IF x < 0 THEN -x ELSE x

RECURSIVE GCD(_, _)
GCD(a, b) == IF b = 0 THEN a ELSE GCD(b, a % b)

\* The rational n/d (d > 0) in lowest terms.
Norm(n, d) ==
    LET g == GCD(Abs(n), d) IN
    IF n = 0 THEN <<0, 1>> ELSE <<n \div g, d \div g>>

\* p + q over the least common denominator.
RAdd(p, q) ==
    LET g == GCD(p[2], q[2]) IN
    Norm(p[1] * (q[2] \div g) + q[1] * (p[2] \div g), (p[2] \div g) * q[2])

RMul(p, q) == Norm(p[1] * q[1], p[2] * q[2])

\* ---------------------------------------------------------- Python values
Scalar(n, d) == [kind |-> "scalar", val |-> Norm(n, d), items |-> <<>>]
PyList(s) == [kind |-> "list", val |-> <<0, 1>>, items |-> s]
PyTuple(s) == [kind |-> "tuple", val |-> <<0, 1>>, items |-> s]
PyNone == [kind |-> "None", val |-> <<0, 1>>, items |-> <<>>]
\* The call raised: nothing was returned.
NoReturn == [kind |-> "absent", val |-> <<0, 1>>, items |-> <<>>]

\* numpy.isscalar(v)
np_isscalar(v) == v.kind = "scalar"

\* isinstance(v, list)
isinstance_list(v) == v.kind = "list"

\* [x] * n
Repeat(x, n) == [i \in 1..n |-> x]

\* dict: k in d, d[k], d.get(k, default), d[k] = v
DictKeys(d) == {p[1] : p \in d}
DictAt(d, k) == (CHOOSE p \in d : p[1] = k)[2]
DictGet(d, k, default) == IF k \in DictKeys(d) THEN DictAt(d, k) ELSE default
DictSet(d, k, v) == {p \in d : p[1] # k} \cup {<<k, v>>}

\* The default weight of the 'lambda' hyperparameter: 1e-5.
DefaultLambdaNum == 1
DefaultLambdaDen == 100000
DefaultLambda == Scalar(DefaultLambdaNum, DefaultLambdaDen)

\* ------------------------------------------------------------ tensor maths
\* tf.reduce_sum(tf.abs(t))
RECURSIVE reduce_sum_abs(_)
reduce_sum_abs(t) ==
    IF t = <<>> THEN 0 ELSE Abs(Head(t)) + reduce_sum_abs(Tail(t))

\* tf.reduce_sum(tf.square(t))
RECURSIVE reduce_sum_square(_)
reduce_sum_square(t) ==
    IF t = <<>> THEN 0 ELSE Head(t) * Head(t) + reduce_sum_square(Tail(t))

\* Variant of reduce_sum_pow3: the cube is taken without tf.abs.
RECURSIVE reduce_sum_pow3_Signed(_)
reduce_sum_pow3_Signed(t) ==
    IF t = <<>> THEN 0
    ELSE Head(t) * Head(t) * Head(t) + reduce_sum_pow3_Signed(Tail(t))

\* tf.reduce_sum(tf.pow(tf.abs(t), 3))
RECURSIVE reduce_sum_pow3(_)
reduce_sum_pow3(t) ==
    IF t = <<>> THEN 0
    ELSE Abs(Head(t)) * Abs(Head(t)) * Abs(Head(t)) + reduce_sum_pow3(Tail(t))

\* ------------------------------------------------------------- the classes
Classes ==
    {"Regularizer", "NoRegularizer", "L1Regularizer", "L2Regularizer",
     "L3Regularizer"}

LpClasses == {"L1Regularizer", "L2Regularizer", "L3Regularizer"}

\* Class attributes of the abstract class, inherited by every subclass until
\* a registration overwrites them.
ClassDefaults == [name |-> "", external_params |-> <<>>, class_params |-> {}]

\* No error was raised.
NoError == "none"

\* ------------------------------------------------------ _init_hyperparams
\* Each takes the instance's _regularizer_parameters and the hyperparam_dict
\* and gives the new mapping, the error raised and the log records emitted.
Regularizer_init_hyperparams(params, hyperparam_dict) ==
    [params |-> params, raised |-> NoError, events |-> <<"logger.error">>]

\* Variant of NoRegularizer_init_hyperparams: it stores 'lambda' as the
\* other variants do.
NoRegularizer_init_hyperparams_Stores(params, hyperparam_dict) ==
    [params |-> DictSet(params, "lambda",
                        DictGet(hyperparam_dict, "lambda", DefaultLambda)),
     raised |-> NoError, events |-> <<>>]

NoRegularizer_init_hyperparams(params, hyperparam_dict) ==
    [params |-> params, raised |-> NoError, events |-> <<>>]

L1_init_hyperparams(params, hyperparam_dict) ==
    [params |-> DictSet(params, "lambda",
                        DictGet(hyperparam_dict, "lambda", DefaultLambda)),
     raised |-> NoError, events |-> <<>>]

L2_init_hyperparams(params, hyperparam_dict) ==
    [params |-> DictSet(params, "lambda",
                        DictGet(hyperparam_dict, "lambda", DefaultLambda)),
     raised |-> NoError, events |-> <<>>]

\* Variant of L3_init_hyperparams: hyperparam_dict['lambda'] for
\* hyperparam_dict.get('lambda', 1e-5), a KeyError when the key is absent.
L3_init_hyperparams_Required(params, hyperparam_dict) ==
    IF "lambda" \in DictKeys(hyperparam_dict)
    THEN [params |-> DictSet(params, "lambda", DictAt(hyperparam_dict, "lambda")),
          raised |-> NoError, events |-> <<>>]
    ELSE [params |-> params, raised |-> "KeyError", events |-> <<>>]

L3_init_hyperparams(params, hyperparam_dict) ==
    [params |-> DictSet(params, "lambda",
                        DictGet(hyperparam_dict, "lambda", DefaultLambda)),
     raised |-> NoError, events |-> <<>>]

\* self._init_hyperparams(hyperparam_dict), dispatched on the class of self.
init_hyperparams(cls, params, hyperparam_dict) ==
    CASE cls = "NoRegularizer" -> NoRegularizer_init_hyperparams(params, hyperparam_dict)
      [] cls = "L1Regularizer" -> L1_init_hyperparams(params, hyperparam_dict)
      [] cls = "L2Regularizer" -> L2_init_hyperparams(params, hyperparam_dict)
      [] cls = "L3Regularizer" -> L3_init_hyperparams(params, hyperparam_dict)
      [] OTHER -> Regularizer_init_hyperparams(params, hyperparam_dict)

\* The logger.info records of a verbose construction: the banner, the name,
\* the 'Parameters:' line and one record per stored hyperparameter.
VerboseEvents(params) ==
    <<"logger.info", "logger.info", "logger.info">>
        \o Repeat("logger.info", Cardinality(params))

\* Regularizer.__init__(self, hyperparam_dict, verbose): the result of the
\* constructor; constructed is FALSE when it raised.
Regularizer__init__(cls, hyperparam_dict, verbose) ==
    LET r == init_hyperparams(cls, {}, hyperparam_dict) IN
    IF r.raised = "KeyError"
    THEN [constructed |-> FALSE, params |-> {}, raised |-> "Exception",
          events |-> r.events \o <<"logger.error", "raise">>]
    ELSE IF r.raised # NoError
    THEN [constructed |-> FALSE, params |-> {}, raised |-> r.raised,
          events |-> r.events \o <<"raise">>]
    ELSE [constructed |-> TRUE, params |-> r.params, raised |-> NoError,
          events |-> r.events
                     \o (IF verbose THEN VerboseEvents(r.params) ELSE <<>>)]

\* ------------------------------------------------------------ _inputs_check
\* logger.error(...) and then raise ValueError(...)
ValueErrorEvents == <<"logger.error", "raise">>

Regularizer_inputs_check(params, trainable_params) ==
    [params |-> params, raised |-> NoError, events |-> <<>>]

NoRegularizer_inputs_check(params, trainable_params) ==
    [params |-> params, raised |-> NoError, events |-> <<>>]

\* Variant of L1_inputs_check: a list longer than the tensors is accepted
\* (>= for ==), so that its extra weights are silently ignored.
L1_inputs_check_AcceptsLonger(params, trainable_params) ==
    LET lambda == DictAt(params, "lambda") IN
    IF np_isscalar(lambda)
    THEN [params |-> DictSet(params, "lambda",
                             PyList(Repeat(lambda.val, Len(trainable_params)))),
          raised |-> NoError, events |-> <<>>]
    ELSE IF isinstance_list(lambda) /\ Len(lambda.items) >= Len(trainable_params)
    THEN [params |-> params, raised |-> NoError, events |-> <<>>]
    ELSE [params |-> params, raised |-> "ValueError", events |-> ValueErrorEvents]

L1_inputs_check(params, trainable_params) ==
    LET lambda == DictAt(params, "lambda") IN
    IF np_isscalar(lambda)
    THEN [params |-> DictSet(params, "lambda",
                             PyList(Repeat(lambda.val, Len(trainable_params)))),
          raised |-> NoError, events |-> <<>>]
    ELSE IF isinstance_list(lambda) /\ Len(lambda.items) = Len(trainable_params)
    THEN [params |-> params, raised |-> NoError, events |-> <<>>]
    ELSE [params |-> params, raised |-> "ValueError", events |-> ValueErrorEvents]

\* Variant of L2_inputs_check: the scalar is wrapped in a list but not
\* repeated ([lambda] for [lambda] * len(trainable_params)).
L2_inputs_check_OneCopy(params, trainable_params) ==
    LET lambda == DictAt(params, "lambda") IN
    IF np_isscalar(lambda)
    THEN [params |-> DictSet(params, "lambda", PyList(<<lambda.val>>)),
          raised |-> NoError, events |-> <<>>]
    ELSE IF isinstance_list(lambda) /\ Len(lambda.items) = Len(trainable_params)
    THEN [params |-> params, raised |-> NoError, events |-> <<>>]
    ELSE [params |-> params, raised |-> "ValueError", events |-> ValueErrorEvents]

\* Variant of L2_inputs_check: a list of the wrong length is cut or padded
\* (with the default weight) to the number of tensors instead of rejected.
L2_inputs_check_Resizes(params, trainable_params) ==
    LET lambda == DictAt(params, "lambda") IN
    IF np_isscalar(lambda)
    THEN [params |-> DictSet(params, "lambda",
                             PyList(Repeat(lambda.val, Len(trainable_params)))),
          raised |-> NoError, events |-> <<>>]
    ELSE IF isinstance_list(lambda)
    THEN [params |-> DictSet(params, "lambda",
                             PyList([i \in 1..Len(trainable_params) |->
                                        IF i <= Len(lambda.items) THEN lambda.items[i]
                                        ELSE DefaultLambda.val])),
          raised |-> NoError, events |-> <<>>]
    ELSE [params |-> params, raised |-> "ValueError", events |-> ValueErrorEvents]

L2_inputs_check(params, trainable_params) ==
    LET lambda == DictAt(params, "lambda") IN
    IF np_isscalar(lambda)
    THEN [params |-> DictSet(params, "lambda",
                             PyList(Repeat(lambda.val, Len(trainable_params)))),
          raised |-> NoError, events |-> <<>>]
    ELSE IF isinstance_list(lambda) /\ Len(lambda.items) = Len(trainable_params)
    THEN [params |-> params, raised |-> NoError, events |-> <<>>]
    ELSE [params |-> params, raised |-> "ValueError", events |-> ValueErrorEvents]

\* Variant of L3_inputs_check: the ValueError is raised without the
\* logger.error call before it.
L3_inputs_check_NoLog(params, trainable_params) ==
    LET lambda == DictAt(params, "lambda") IN
    IF np_isscalar(lambda)
    THEN [params |-> DictSet(params, "lambda",
                             PyList(Repeat(lambda.val, Len(trainable_params)))),
          raised |-> NoError, events |-> <<>>]
    ELSE IF isinstance_list(lambda) /\ Len(lambda.items) = Len(trainable_params)
    THEN [params |-> params, raised |-> NoError, events |-> <<>>]
    ELSE [params |-> params, raised |-> "ValueError", events |-> <<"raise">>]

\* Variant of L3_inputs_check: the broadcast list is built but not stored
\* back, so the stored weight stays a scalar.
L3_inputs_check_NotStored(params, trainable_params) ==
    LET lambda == DictAt(params, "lambda") IN
    IF np_isscalar(lambda)
    THEN [params |-> params, raised |-> NoError, events |-> <<>>]
    ELSE IF isinstance_list(lambda) /\ Len(lambda.items) = Len(trainable_params)
    THEN [params |-> params, raised |-> NoError, events |-> <<>>]
    ELSE [params |-> params, raised |-> "ValueError", events |-> ValueErrorEvents]

L3_inputs_check(params, trainable_params) ==
    LET lambda == DictAt(params, "lambda") IN
    IF np_isscalar(lambda)
    THEN [params |-> DictSet(params, "lambda",
                             PyList(Repeat(lambda.val, Len(trainable_params)))),
          raised |-> NoError, events |-> <<>>]
    ELSE IF isinstance_list(lambda) /\ Len(lambda.items) = Len(trainable_params)
    THEN [params |-> params, raised |-> NoError, events |-> <<>>]
    ELSE [params |-> params, raised |-> "ValueError", events |-> ValueErrorEvents]

\* self._inputs_check(trainable_params), dispatched on the class of self.
inputs_check(cls, params, trainable_params) ==
    CASE cls = "NoRegularizer" -> NoRegularizer_inputs_check(params, trainable_params)
      [] cls = "L1Regularizer" -> L1_inputs_check(params, trainable_params)
      [] cls = "L2Regularizer" -> L2_inputs_check(params, trainable_params)
      [] cls = "L3Regularizer" -> L3_inputs_check(params, trainable_params)
      [] OTHER -> Regularizer_inputs_check(params, trainable_params)

\* ------------------------------------------------------------------ _apply
\* The state of the loop `for i in range(len(trainable_params))`: the running
\* loss_reg, the indices visited so far (1-based) and the error raised by
\* the subscript lambda[i], if any.
LoopStart == [loss_reg |-> <<0, 1>>, visited |-> <<>>, raised |-> NoError]

\* One iteration: loss_reg += lambda[i] * s, s the reduced sum of tensor i.
LoopBody(acc, lambda, i, s) ==
    IF lambda.kind \notin {"list", "tuple"}
    THEN [acc EXCEPT !.raised = "TypeError"]
    ELSE IF i > Len(lambda.items)
    THEN [acc EXCEPT !.raised = "IndexError"]
    ELSE [loss_reg |-> RAdd(acc.loss_reg, RMul(lambda.items[i], <<s, 1>>)),
          visited |-> Append(acc.visited, i),
          raised |-> NoError]

\* The value _apply hands back from the final loop state.
LoopResult(acc) ==
    IF acc.raised # NoError
    THEN [ret |-> NoReturn, raised |-> acc.raised, visited |-> acc.visited,
          events |-> <<"_apply", "raise">>]
    ELSE [ret |-> Scalar(acc.loss_reg[1], acc.loss_reg[2]), raised |-> NoError,
          visited |-> acc.visited, events |-> <<"_apply">>]

RECURSIVE L1_loop(_, _, _, _)
L1_loop(acc, lambda, trainable_params, i) ==
    IF i > Len(trainable_params) \/ acc.raised # NoError THEN acc
    ELSE L1_loop(LoopBody(acc, lambda, i, reduce_sum_abs(trainable_params[i])),
                 lambda, trainable_params, i + 1)

L1_apply(params, trainable_params) ==
    LoopResult(L1_loop(LoopStart, DictAt(params, "lambda"), trainable_params, 1))

RECURSIVE L2_loop(_, _, _, _)
L2_loop(acc, lambda, trainable_params, i) ==
    IF i > Len(trainable_params) \/ acc.raised # NoError THEN acc
    ELSE L2_loop(LoopBody(acc, lambda, i, reduce_sum_square(trainable_params[i])),
                 lambda, trainable_params, i + 1)

L2_apply(params, trainable_params) ==
    LoopResult(L2_loop(LoopStart, DictAt(params, "lambda"), trainable_params, 1))

RECURSIVE L3_loop(_, _, _, _)
L3_loop(acc, lambda, trainable_params, i) ==
    IF i > Len(trainable_params) \/ acc.raised # NoError THEN acc
    ELSE L3_loop(LoopBody(acc, lambda, i, reduce_sum_pow3(trainable_params[i])),
                 lambda, trainable_params, i + 1)

L3_apply(params, trainable_params) ==
    LoopResult(L3_loop(LoopStart, DictAt(params, "lambda"), trainable_params, 1))

\* return tf.constant(0.0)
NoRegularizer_apply(params, trainable_params) ==
    [ret |-> Scalar(0, 1), raised |-> NoError, visited |-> <<>>,
     events |-> <<"_apply">>]

\* The placeholder logs an error, builds a NotImplementedError it never
\* raises, and falls off the end: it returns None.
Regularizer_apply(params, trainable_params) ==
    [ret |-> PyNone, raised |-> NoError, visited |-> <<>>,
     events |-> <<"_apply", "logger.error">>]

\* self._apply(trainable_params), dispatched on the class of self.
apply_loss(cls, params, trainable_params) ==
    CASE cls = "NoRegularizer" -> NoRegularizer_apply(params, trainable_params)
      [] cls = "L1Regularizer" -> L1_apply(params, trainable_params)
      [] cls = "L2Regularizer" -> L2_apply(params, trainable_params)
      [] cls = "L3Regularizer" -> L3_apply(params, trainable_params)
      [] OTHER -> Regularizer_apply(params, trainable_params)

\* Regularizer.apply(self, trainable_params): _inputs_check, then _apply.
Regularizer_apply_entry(cls, params, trainable_params) ==
    LET c == inputs_check(cls, params, trainable_params) IN
    IF c.raised # NoError
    THEN [params |-> c.params, ret |-> NoReturn, raised |-> c.raised,
          visited |-> <<>>, events |-> <<"_inputs_check">> \o c.events]
    ELSE LET a == apply_loss(cls, c.params, trainable_params) IN
         [params |-> c.params, ret |-> a.ret, raised |-> a.raised,
          visited |-> a.visited,
          events |-> <<"_inputs_check">> \o c.events \o a.events]

\* ------------------------------------------------------------ the registry
\* The module state that registration writes: REGULARIZER_REGISTRY (name ->
\* class) and the attributes name, external_params and class_params that the
\* decorator sets on the class itself.
EmptyModule ==
    [registry |-> [n \in {} |-> ""],
     attrs |-> [c \in Classes |-> ClassDefaults]]

\* register_regularizer(name, external_params, class_params)(class_handle)
insert_in_registry(mod, name, external_params, class_params, class_handle) ==
    [registry |-> [n \in DOMAIN mod.registry \cup {name} |->
                      IF n = name THEN class_handle ELSE mod.registry[n]],
     attrs |-> [mod.attrs EXCEPT ![class_handle] =
                   [name |-> name,
                    external_params |-> external_params,
                    class_params |-> class_params]]]

\* The four decorator applications of the module, in source order; an
\* omitted argument takes the default external_params=[] or class_params={}.
Decorators ==
    << [name |-> "None", external_params |-> <<>>, class_params |-> {},
        class_handle |-> "NoRegularizer"],
       [name |-> "L1", external_params |-> <<"lambda">>, class_params |-> {},
        class_handle |-> "L1Regularizer"],
       [name |-> "L2", external_params |-> <<"lambda">>, class_params |-> {},
        class_handle |-> "L2Regularizer"],
       [name |-> "L3", external_params |-> <<"lambda">>, class_params |-> {},
        class_handle |-> "L3Regularizer"] >>

RECURSIVE LoadFrom(_, _)
LoadFrom(mod, i) ==
    IF i > Len(Decorators) THEN mod
    ELSE LoadFrom(insert_in_registry(mod, Decorators[i].name,
                                     Decorators[i].external_params,
                                     Decorators[i].class_params,
                                     Decorators[i].class_handle), i + 1)

\* The module state once the module has been imported.
ModuleLoaded == LoadFrom(EmptyModule, 1)

\* What each registration so far declared, by name (the latest one wins):
\* the record of the arguments of the decorator applications.
DeclaredAtLoad ==
    [n \in {Decorators[i].name : i \in 1..Len(Decorators)} |->
        LET d == CHOOSE e \in {Decorators[i] : i \in 1..Len(Decorators)} : e.name = n
        IN [class_handle |-> d.class_handle,
            external_params |-> d.external_params,
            class_params |-> d.class_params]]

\* Regularizer.get_state(self, param_name), self an instance of cls.
Regularizer_get_state(registry, attrs, cls, param_name) ==
    LET name == attrs[cls].name IN
    IF name \notin DOMAIN registry
    THEN [ret |-> NoReturn, raised |-> "Exception",
          events |-> <<"logger.error", "raise">>]
    ELSE [ret |-> DictGet(attrs[registry[name]].class_params, param_name, PyNone),
          raised |-> NoError, events |-> <<>>]

\* ------------------------------------------------------------------ inputs
RECURSIVE SeqsUpTo(_, _)
SeqsUpTo(S, n) ==
    IF n = 0 THEN {<<>>}
    ELSE LET shorter == SeqsUpTo(S, n - 1) IN
         shorter \cup {Append(s, x) : s \in {q \in shorter : Len(q) = n - 1}, x \in S}

\* The weights callers put in a 'lambda' list: 1 and 0.5.
Weights == {<<1, 1>>, <<1, 2>>}

\* The 'lambda' lists of up to MaxLambdaLen weights: of each length the two
\* lists of equal weights and the one alternating 1, 0.5, 1, ...
LambdaLists ==
    {[i \in 1..n |-> w] : n \in 0..MaxLambdaLen, w \in Weights}
        \cup {[i \in 1..n |-> IF i % 2 = 1 THEN <<1, 1>> ELSE <<1, 2>>] :
                 n \in 0..MaxLambdaLen}

\* The values callers give to 'lambda': a scalar, a list of weights, or a
\* value that is neither (a tuple, None).
LambdaValues ==
    {Scalar(w[1], w[2]) : w \in Weights}
        \cup {PyList(s) : s \in LambdaLists}
        \cup {PyTuple(<<<<1, 1>>, <<1, 1>>>>), PyNone}

\* The hyperparam_dict arguments: with or without 'lambda', with or without
\* a key no regularizer reads.
HyperparamDicts ==
    {{}, {<<"eta", Scalar(1, 1)>>}, {<<"lambda", Scalar(1, 2)>>, <<"eta", Scalar(1, 1)>>}}
        \cup {{<<"lambda", v>>} : v \in LambdaValues}

\* The tensors callers pass, by their elements.
TensorPool == {<<-1, 2>>, <<3>>, <<-2>>}

\* The trainable_params arguments: lists of up to MaxTensors tensors.
TrainableParams == SeqsUpTo(TensorPool, MaxTensors)

ParamNames == {"lambda", "k"}

\* Later registrations: a name already taken or a new one, a class already
\* registered, with or without declared parameters.
RegNames == {"L1", "X"}
RegClasses == {"L1Regularizer", "NoRegularizer"}
RegExternalParams == {<<>>, <<"lambda">>}
RegClassParams == {{}, {<<"k", Scalar(1, 1)>>}}

\* ------------------------------------------------------------------- state
VARIABLES
    REGULARIZER_REGISTRY,  \* name -> class
    classAttrs,            \* class -> [name, external_params, class_params]
    declared,              \* name -> arguments of its latest registration
    nreg,                  \* registrations made after module load
    self,                  \* the instance: [cls, params]; cls "none" before any
    hist,                  \* history of self: applies, firstN, built, given, changes
    last                   \* the latest call: arguments, outcome, log records

vars == <<REGULARIZER_REGISTRY, classAttrs, declared, nreg, self, hist, last>>

NoCall ==
    [op |-> "import", cls |-> "none", hyperparam_dict |-> {}, verbose |-> FALSE,
     trainable_params |-> <<>>, param_name |-> "", pre |-> {},
     ret |-> NoReturn, raised |-> NoError, events |-> <<>>, visited |-> <<>>]

\* The history of an instance: applies and changes count the apply calls made
\* on it and the calls that changed its mapping, as 0, 1 or 2 for "two or
\* more"; firstN is the tensor count of its first apply; built is the mapping
\* its constructor left and given the hyperparam_dict it was built from.
Count(n) == IF n < 2 THEN n + 1 ELSE n

NewHist(params, hyperparam_dict) ==
    [applies |-> 0, firstN |-> -1, built |-> params, given |-> hyperparam_dict,
     changes |-> 0]

Init ==
    /\ REGULARIZER_REGISTRY = ModuleLoaded.registry
    /\ classAttrs = ModuleLoaded.attrs
    /\ declared = DeclaredAtLoad
    /\ nreg = 0
    /\ self = [cls |-> "none", params |-> {}]
    /\ hist = NewHist({}, {})
    /\ last = NoCall

\* cls(hyperparam_dict, verbose)
Construct(cls, hyperparam_dict, verbose) ==
    LET r == Regularizer__init__(cls, hyperparam_dict, verbose) IN
    /\ self' = IF r.constructed THEN [cls |-> cls, params |-> r.params] ELSE self
    /\ hist' = IF r.constructed THEN NewHist(r.params, hyperparam_dict) ELSE hist
    /\ last' = [NoCall EXCEPT !.op = "__init__", !.cls = cls,
                              !.hyperparam_dict = hyperparam_dict,
                              !.verbose = verbose, !.raised = r.raised,
                              !.events = r.events]
    /\ UNCHANGED <<REGULARIZER_REGISTRY, classAttrs, declared, nreg>>

\* self.apply(trainable_params)
Apply(trainable_params) ==
    /\ self.cls # "none"
    /\ LET r == Regularizer_apply_entry(self.cls, self.params, trainable_params) IN
       /\ self' = [self EXCEPT !.params = r.params]
       /\ hist' = [hist EXCEPT
                     !.applies = Count(@),
                     !.firstN = IF hist.applies = 0 THEN Len(trainable_params) ELSE @,
                     !.changes = IF r.params # self.params THEN Count(@) ELSE @]
       /\ last' = [NoCall EXCEPT !.op = "apply", !.cls = self.cls,
                                 !.trainable_params = trainable_params,
                                 !.pre = self.params, !.ret = r.ret,
                                 !.raised = r.raised, !.events = r.events,
                                 !.visited = r.visited]
    /\ UNCHANGED <<REGULARIZER_REGISTRY, classAttrs, declared, nreg>>

\* self.get_state(param_name)
GetState(param_name) ==
    /\ self.cls # "none"
    /\ LET r == Regularizer_get_state(REGULARIZER_REGISTRY, classAttrs,
                                      self.cls, param_name) IN
       last' = [NoCall EXCEPT !.op = "get_state", !.cls = self.cls,
                              !.param_name = param_name, !.pre = self.params,
                              !.ret = r.ret, !.raised = r.raised,
                              !.events = r.events]
    /\ UNCHANGED <<REGULARIZER_REGISTRY, classAttrs, declared, nreg, self, hist>>

\* register_regularizer(name, external_params, class_params)(class_handle)
Register(name, external_params, class_params, class_handle) ==
    /\ nreg < MaxRegistrations
    /\ LET m == insert_in_registry(
                    [registry |-> REGULARIZER_REGISTRY, attrs |-> classAttrs],
                    name, external_params, class_params, class_handle) IN
       /\ REGULARIZER_REGISTRY' = m.registry
       /\ classAttrs' = m.attrs
    /\ declared' = [n \in DOMAIN declared \cup {name} |->
                      IF n = name
                      THEN [class_handle |-> class_handle,
                            external_params |-> external_params,
                            class_params |-> class_params]
                      ELSE declared[n]]
    /\ nreg' = nreg + 1
    /\ last' = [NoCall EXCEPT !.op = "register_regularizer", !.cls = class_handle,
                              !.param_name = name]
    /\ UNCHANGED <<self, hist>>

\* The hyperparam_dict arguments of the verbose constructions and of the
\* constructions of the abstract class, which reads none of it.
VerboseDicts == {{}, {<<"lambda", Scalar(1, 2)>>, <<"eta", Scalar(1, 1)>>}}

ConstructStep ==
    \/ \E cls \in Classes \ {"Regularizer"}, d \in HyperparamDicts :
          Construct(cls, d, FALSE)
    \/ \E d \in VerboseDicts : Construct("Regularizer", d, FALSE)
    \/ \E cls \in Classes, d \in VerboseDicts : Construct(cls, d, TRUE)

ApplyStep == \E t \in TrainableParams : Apply(t)

GetStateStep == \E p \in ParamNames : GetState(p)

RegisterStep ==
    \E name \in RegNames, e \in RegExternalParams, cp \in RegClassParams,
       ch \in RegClasses : Register(name, e, cp, ch)

\* One instance in use after import: construction, apply and get_state.
Next == ConstructStep \/ ApplyStep \/ GetStateStep

Spec == Init /\ [][Next]_vars

\* Construction with the default hyperparameters.
ConstructDefaultStep == \E cls \in Classes : Construct(cls, {}, FALSE)

\* The registry in use after import: further registrations, construction
\* and get_state.
NextReg == RegisterStep \/ ConstructDefaultStep \/ GetStateStep

SpecReg == Init /\ [][NextReg]_vars

\* -------------------------------------------------------------- properties
\* The 'lambda' entry of a hyperparameter mapping (None when it has none).
Lambda(params) == DictGet(params, "lambda", PyNone)

\* The latest call was apply on an instance of L1, L2 or L3.
LpApplied == last.op = "apply" /\ last.cls \in LpClasses

\* C1: apply on an L1/L2/L3 instance whose 'lambda' is a list of a length
\* other than the number of tensors fails with ValueError, returns no loss
\* and leaves the list as it was (neither truncated nor padded).
C1_ListLengthMismatchRaises ==
    (/\ LpApplied
     /\ Lambda(last.pre).kind = "list"
     /\ Len(Lambda(last.pre).items) # Len(last.trainable_params))
        => /\ last.raised = "ValueError"
           /\ last.ret = NoReturn
           /\ self.params = last.pre

\* A list of two weights met one tensor (a candidate for truncation), and a
\* ValueError came out.
C1_Witness ==
    /\ LpApplied
    /\ Lambda(last.pre).kind = "list"
    /\ Len(Lambda(last.pre).items) = 2
    /\ Len(last.trainable_params) = 1
    /\ last.raised = "ValueError"

\* C2: the first apply on an L1/L2/L3 instance holding a scalar weight w
\* stores exactly n copies of w, n the number of tensors, and returns the loss
\* that a fresh instance built with the explicit list of n copies returns on
\* the same tensors.
C2_ScalarBroadcastEqualsExplicitList ==
    (LpApplied /\ Lambda(last.pre).kind = "scalar")
        => LET n == Len(last.trainable_params)
               explicit == PyList([i \in 1..n |-> Lambda(last.pre).val])
               fresh == Regularizer__init__(last.cls, {<<"lambda", explicit>>}, FALSE)
               direct == Regularizer_apply_entry(last.cls, fresh.params,
                                                 last.trainable_params)
           IN /\ Lambda(self.params) = explicit
              /\ Len(Lambda(self.params).items) = n
              /\ last.raised = NoError
              /\ last.ret.kind = "scalar"
              /\ direct.raised = NoError
              /\ last.ret = direct.ret

\* A scalar 0.5 was broadcast over two tensors and a non-zero loss returned.
C2_Witness ==
    /\ LpApplied
    /\ Lambda(last.pre) = Scalar(1, 2)
    /\ Len(last.trainable_params) = 2
    /\ Lambda(self.params) = PyList(<<<<1, 2>>, <<1, 2>>>>)
    /\ last.ret.kind = "scalar"
    /\ last.ret.val # <<0, 1>>

\* The exponent of each variant.
Exponent(cls) ==
    CASE cls = "L1Regularizer" -> 1
      [] cls = "L2Regularizer" -> 2
      [] cls = "L3Regularizer" -> 3

\* The sum of |x|^p over the first k elements of tensor t.
RECURSIVE PowerSum(_, _, _)
PowerSum(t, p, k) ==
    IF k = 0 THEN 0 ELSE PowerSum(t, p, k - 1) + Abs(t[k]) ^ p

\* DefaultLambdaDen times the sum over the first k tensors of w_i times the
\* sum of |x|^p over tensor i: an integer, since the denominator of every
\* weight of the model divides DefaultLambdaDen.
RECURSIVE ScaledLoss(_, _, _, _)
ScaledLoss(w, ts, p, k) ==
    IF k = 0 THEN 0
    ELSE ScaledLoss(w, ts, p, k - 1)
            + w[k][1] * (DefaultLambdaDen \div w[k][2]) * PowerSum(ts[k], p, Len(ts[k]))

\* apply of class cls holding the list w, on the tensors ts.
LossOf(cls, w, ts) ==
    Regularizer_apply_entry(cls, {<<"lambda", PyList(w)>>}, ts)

\* C3: a successful apply of the variant with exponent p returns the sum over
\* the tensors of w_i times the sum of |x|^p over tensor i, having visited
\* the tensors 1..n once each in order; L1 on [[-1,2],[3]] with [1,1] gives 6,
\* L2 on [[-1,2]] with [0.5] gives 2.5, L3 on [[-2]] with [1] gives 8, and no
\* tensors give 0.
C3_LossIsWeightedPowerSum ==
    /\ (LpApplied /\ last.raised = NoError)
          => LET w == Lambda(self.params).items
                 n == Len(last.trainable_params)
                 scaled == ScaledLoss(w, last.trainable_params,
                                      Exponent(last.cls), n)
             IN /\ last.ret.kind = "scalar"
                /\ last.ret.val = Norm(scaled, DefaultLambdaDen)
                /\ last.visited = [i \in 1..n |-> i]
    /\ LossOf("L1Regularizer", <<<<1, 1>>, <<1, 1>>>>, <<<<-1, 2>>, <<3>>>>).ret
          = Scalar(6, 1)
    /\ LossOf("L2Regularizer", <<<<1, 2>>>>, <<<<-1, 2>>>>).ret = Scalar(5, 2)
    /\ LossOf("L3Regularizer", <<<<1, 1>>>>, <<<<-2>>>>).ret = Scalar(8, 1)
    /\ \A cls \in LpClasses : LossOf(cls, <<>>, <<>>).ret = Scalar(0, 1)

\* L3 was applied to [[-2]] with the weights [1] and returned 8.
C3_Witness ==
    /\ last.op = "apply"
    /\ last.cls = "L3Regularizer"
    /\ Lambda(last.pre) = PyList(<<<<1, 1>>>>)
    /\ last.trainable_params = <<<<-2>>>>
    /\ last.ret = Scalar(8, 1)

\* C4: NoRegularizer never fails: construction from any mapping stores
\* nothing, and apply on any tensors returns the constant 0 and leaves the
\* mapping empty.
C4_NoRegularizerIsZero ==
    /\ (last.op = "__init__" /\ last.cls = "NoRegularizer")
          => last.raised = NoError /\ self.cls = "NoRegularizer"
    /\ self.cls = "NoRegularizer" => self.params = {}
    /\ (last.op = "apply" /\ last.cls = "NoRegularizer")
          => /\ last.raised = NoError
             /\ last.ret = Scalar(0, 1)
             /\ last.pre = {}

\* A NoRegularizer built from a mapping with a 'lambda' list of one weight was
\* applied to two tensors and returned 0.
C4_Witness ==
    /\ last.op = "apply"
    /\ last.cls = "NoRegularizer"
    /\ Lambda(hist.given) = PyList(<<<<1, 1>>>>)
    /\ Len(last.trainable_params) = 2
    /\ last.ret = Scalar(0, 1)

\* C5: constructing L1, L2 or L3 never fails; the stored weight is the
\* supplied 'lambda' when the mapping has one and exactly 1e-5 when it has
\* none.
C5_DefaultLambda ==
    (last.op = "__init__" /\ last.cls \in LpClasses)
        => /\ last.raised = NoError
           /\ self.cls = last.cls
           /\ DictKeys(self.params) = {"lambda"}
           /\ Lambda(self.params) =
                 IF "lambda" \in DictKeys(last.hyperparam_dict)
                 THEN DictAt(last.hyperparam_dict, "lambda")
                 ELSE [kind |-> "scalar", val |-> <<1, 100000>>, items |-> <<>>]

\* L3 was built from a mapping with an unrelated key only, and holds 1e-5.
C5_Witness ==
    /\ last.op = "__init__"
    /\ last.cls = "L3Regularizer"
    /\ last.hyperparam_dict = {<<"eta", Scalar(1, 1)>>}
    /\ Lambda(self.params).val = <<1, 100000>>

\* C6: a get_state query raises when the name of the instance's class is not
\* registered, and raises when the parameter name was never registered for
\* that class; it never hands back None for an unknown parameter.
C6_UnregisteredLookupRaises ==
    last.op = "get_state"
        => LET name == classAttrs[last.cls].name IN
           /\ name \notin DOMAIN REGULARIZER_REGISTRY => last.raised # NoError
           /\ (/\ name \in DOMAIN REGULARIZER_REGISTRY
               /\ last.param_name \notin
                     DictKeys(classAttrs[REGULARIZER_REGISTRY[name]].class_params))
                 => last.raised # NoError

\* C7: every name registered so far maps to the class of its latest
\* registration, whose name attribute is that name and whose external_params
\* and class_params are the ones that registration declared; no name is ever
\* removed, and right after import the names are None, L1, L2 and L3.
C7_LookupReturnsDeclared ==
    /\ {"None", "L1", "L2", "L3"} \subseteq DOMAIN REGULARIZER_REGISTRY
    /\ nreg = 0 => DOMAIN REGULARIZER_REGISTRY = {"None", "L1", "L2", "L3"}
    /\ \A n \in DOMAIN declared :
          /\ n \in DOMAIN REGULARIZER_REGISTRY
          /\ REGULARIZER_REGISTRY[n] = declared[n].class_handle
          /\ classAttrs[REGULARIZER_REGISTRY[n]].name = n
          /\ classAttrs[REGULARIZER_REGISTRY[n]].external_params
                = declared[n].external_params
          /\ classAttrs[REGULARIZER_REGISTRY[n]].class_params
                = declared[n].class_params

\* C8: the mapping of an L1/L2/L3 instance changes at most once: a call other
\* than construction changes it only if it is the first apply on an instance
\* holding a scalar, which stores the broadcast list; a call that raises
\* changes nothing, and neither does get_state.
C8_BroadcastOnceThenStable ==
    /\ [](hist.changes <= 1)
    /\ [][last'.op # "__init__"
            => /\ last'.raised # NoError => self' = self
               /\ last'.op # "apply" => self' = self
               /\ self'.params # self.params
                     => /\ last'.op = "apply"
                        /\ self.cls \in LpClasses
                        /\ hist.applies = 0
                        /\ Lambda(self.params).kind = "scalar"
                        /\ Lambda(self'.params) =
                              PyList([i \in 1..Len(last'.trainable_params) |->
                                         Lambda(self.params).val])]_vars

\* An instance built with a scalar was broadcast by its first apply, and a
\* later apply failed validation.
C8_Witness ==
    /\ LpApplied
    /\ Lambda(hist.built).kind = "scalar"
    /\ hist.applies = 2
    /\ hist.changes = 1
    /\ last.raised = "ValueError"
    /\ self.params = last.pre

\* C9: a call that raises has emitted an error log record right before the
\* raise; apply validates first, and a failed validation computes no loss.
C9_LogThenRaise ==
    /\ last.raised # NoError
          => /\ Len(last.events) >= 2
             /\ last.events[Len(last.events)] = "raise"
             /\ last.events[Len(last.events) - 1] = "logger.error"
    /\ last.raised = NoError => \A i \in 1..Len(last.events) : last.events[i] # "raise"
    /\ last.op = "apply"
          => /\ last.events[1] = "_inputs_check"
             /\ \A i \in 1..Len(last.events) : last.events[i] = "_apply" => i > 1
             /\ last.raised = "ValueError"
                   => /\ \A i \in 1..Len(last.events) : last.events[i] # "_apply"
                      /\ last.ret = NoReturn
                      /\ last.visited = <<>>

\* apply on an L3 instance holding a tuple logged the error and raised
\* ValueError without reaching _apply.
C9_Witness ==
    /\ last.op = "apply"
    /\ last.cls = "L3Regularizer"
    /\ Lambda(last.pre).kind = "tuple"
    /\ last.raised = "ValueError"
    /\ last.events = <<"_inputs_check", "logger.error", "raise">>

\* C10: an L1/L2/L3 instance built with a scalar is bound to the tensor count
\* n of its first apply: a later apply with m tensors succeeds when m = n and
\* fails with ValueError when m # n.
C10_ScalarInstanceBoundToFirstCount ==
    (/\ LpApplied
     /\ Lambda(hist.built).kind = "scalar"
     /\ hist.applies = 2)
        => IF Len(last.trainable_params) = hist.firstN
           THEN last.raised = NoError /\ last.ret.kind = "scalar"
           ELSE last.raised = "ValueError" /\ last.ret = NoReturn

\* The first apply had no tensors and left an empty list; a later apply with
\* one tensor failed.
C10_Witness ==
    /\ LpApplied
    /\ Lambda(hist.built).kind = "scalar"
    /\ hist.applies = 2
    /\ hist.firstN = 0
    /\ Lambda(self.params) = PyList(<<>>)
    /\ Len(last.trainable_params) = 1
    /\ last.raised = "ValueError"

====
